---- MODULE Spec2Model ----
(***************************************************************************)
(* Model of the Bitcoin price monitor (src/src/main.rs): the polling loop  *)
(* of main, PriceMonitor::fetch_price / should_alert / play_alert, and the *)
(* tokio interval timer that paces the loop.                               *)
(*                                                                         *)
(* Strings are sequences of one-character strings, so that parsing a price *)
(* is a computation over its characters.  An f64 is a record               *)
(*   [kind, neg, num, den]                                                 *)
(* kind "fin" is the signed rational (+/-) num/den, kind "inf" a signed    *)
(* infinity, kind "nan" a NaN.  Finite arithmetic is exact: the rounding   *)
(* of f64 is not modelled.  Time is counted in whole seconds.              *)
(***************************************************************************)
EXTENDS Integers, Sequences, FiniteSets, TLC

VARIABLES pc, now, deadline, last_price, last_alert, alert_threshold,
          resp, res, alert, played, log, fetched_ok,
          in_flight, plays, stamped, prev_ok, first_ok, small_steps

vars == <<pc, now, deadline, last_price, last_alert, alert_threshold,
          resp, res, alert, played, log, fetched_ok,
          in_flight, plays, stamped, prev_ok, first_ok, small_steps>>

\* What the run has done so far, recorded beside the program's state:
\*   in_flight    requests sent whose fetch_price has not returned
\*   plays        calls of play_alert in the running cycle
\*   stamped      last_alert has been assigned in the running cycle
\*   prev_ok      the price of the latest successful fetch
\*   first_ok     the price of the first successful fetch
\*   small_steps  every successful fetch so far moved by less than the
\*                threshold, relative to the successful fetch before it
history == <<prev_ok, first_ok, small_steps>>

(***************************************************************************)
(* Bounds of the model                                                     *)
(***************************************************************************)
\* the clock stops the loop from starting a cycle that could end after this
MaxTime == 24

(***************************************************************************)
(* Program constants                                                       *)
(***************************************************************************)
\* Duration::from_secs(5)
Interval == 5
\* std::thread::sleep(Duration::from_secs(1)) in play_alert
PlayTime == 1
\* PriceMonitor::new(0.00001): the threshold 1/100000
ThresholdNum == 1
ThresholdDen == 100000

\* how long one fetch may take, in seconds (the request has no timeout)
FetchDurations == {0, 11}
SlowestFetch == CHOOSE d \in FetchDurations : \A e \in FetchDurations : e <= d

(***************************************************************************)
(* f64 values                                                              *)
(***************************************************************************)
F64Fin(neg, num, den) == [kind |-> "fin", neg |-> neg, num |-> num, den |-> den]
F64Inf(neg) == [kind |-> "inf", neg |-> neg, num |-> 0, den |-> 1]
F64NaN == [kind |-> "nan", neg |-> FALSE, num |-> 0, den |-> 1]

\* the integer value of a finite f64 with den = 1 (every parsed price)
IntVal(x) == IF x.neg THEN 0 - x.num ELSE x.num

Abs(n) == IF n < 0 THEN 0 - n ELSE n

\* a - b on prices (finite, den = 1)
F64Sub(a, b) ==
    IF a.kind = "fin" /\ b.kind = "fin"
    THEN LET d == IntVal(a) - IntVal(b) IN F64Fin(d < 0, Abs(d), 1)
    ELSE F64NaN

\* abs left out
F64Abs_id(a) == a

\* f64::abs clears the sign bit
F64Abs(a) == [a EXCEPT !.neg = FALSE]

\* a / b on finite integers, IEEE 754: x/0 is a signed infinity, 0/0 is NaN
F64Div(a, b) ==
    IF a.kind # "fin" \/ b.kind # "fin" THEN F64NaN
    ELSE IF b.num = 0
         THEN IF a.num = 0 THEN F64NaN ELSE F64Inf(a.neg # b.neg)
         ELSE F64Fin(a.neg # b.neg, a.num, b.num)

\* the comparison written with > in place of >=
RatGeq_strict(n, d, tn, td) ==
    IF n >= d /\ tn < td THEN TRUE ELSE n * td > tn * d

\* n/d >= tn/td for n >= 0, d > 0, tn > 0, td > 0.  A quotient of at least
\* one is settled without the products when the threshold is at most one.
RatGeq(n, d, tn, td) ==
    IF n >= d /\ tn <= td THEN TRUE ELSE n * td >= tn * d

\* x >= t for a finite positive t; every comparison with NaN is false
F64Geq(x, t) ==
    CASE x.kind = "nan" -> FALSE
      [] x.kind = "inf" -> ~x.neg
      [] OTHER -> IF x.neg /\ x.num > 0 THEN FALSE
                  ELSE RatGeq(x.num, x.den, t.num, t.den)

(***************************************************************************)
(* str::parse::<f64> on the characters the model uses: decimal digits, a   *)
(* sign, and "x" for any character that cannot occur in a number           *)
(***************************************************************************)
Digits == <<"0", "1", "2", "3", "4", "5", "6", "7", "8", "9">>

IsDigit(ch) == \E i \in 1..10 : Digits[i] = ch

DigitVal(ch) == (CHOOSE i \in 1..10 : Digits[i] = ch) - 1

AllDigits(s) == \A i \in 1..Len(s) : IsDigit(s[i])

RECURSIVE DigitsValue(_)
DigitsValue(s) ==
    IF s = <<>> THEN 0
    ELSE DigitsValue(SubSeq(s, 1, Len(s) - 1)) * 10 + DigitVal(s[Len(s)])

\* <<TRUE, value>> or <<FALSE, _>> (ParseFloatError)
ParseF64(s) ==
    LET signed == s # <<>> /\ s[1] \in {"-", "+"}
        body == IF signed THEN Tail(s) ELSE s
    IN  IF body # <<>> /\ AllDigits(body)
        THEN <<TRUE, F64Fin(signed /\ s[1] = "-", DigitsValue(body), 1)>>
        ELSE <<FALSE, F64NaN>>

(***************************************************************************)
(* The HTTP exchange and the JSON body                                     *)
(***************************************************************************)
\* sent: send() succeeded; json: the body is a JSON document;
\* has_error / has_result / has_pair / has_c: the fields "error", "result",
\* "XXBTZUSD" and "c" are present; error and c are their values
Response(sent, json, he, err, hr, hp, hc, c) ==
    [sent |-> sent, json |-> json, has_error |-> he, error |-> err,
     has_result |-> hr, has_pair |-> hp, has_c |-> hc, c |-> c]

NoResponse == Response(FALSE, FALSE, FALSE, <<>>, FALSE, FALSE, FALSE, <<>>)

ApiErrorText == <<"EQuery:Unknown asset pair">>

PriceStrings ==
    { <<"1","0","0","0","0","0">>, <<"1","0","0","0","0","1">>,
      <<"9","9","9","9","9">>, <<"1","0","0","0","0","2">>,
      <<"1","0","0","0","0","3">>,
      <<"0">>, <<"-","1">>, <<"-","0">>,
      <<"x">>, <<>>, <<"-">>, <<"1","x">> }

Responses ==
    { NoResponse,
      \* a body that is not JSON
      Response(TRUE, FALSE, FALSE, <<>>, FALSE, FALSE, FALSE, <<>>),
      \* {"error": ["EQuery:Unknown asset pair"]}
      Response(TRUE, TRUE, TRUE, ApiErrorText, FALSE, FALSE, FALSE, <<>>),
      \* {"error": ["EQuery:Unknown asset pair"], "result": {}}
      Response(TRUE, TRUE, TRUE, ApiErrorText, TRUE, FALSE, FALSE, <<>>),
      \* an error list together with a complete ticker
      Response(TRUE, TRUE, TRUE, ApiErrorText, TRUE, TRUE, TRUE,
               << <<"1","0","0","0","0","0">> >>),
      \* {"result": {...}} without "error"
      Response(TRUE, TRUE, FALSE, <<>>, TRUE, TRUE, TRUE,
               << <<"1","0","0","0","0","0">> >>),
      \* {"error": [], "result": {}}
      Response(TRUE, TRUE, TRUE, <<>>, TRUE, FALSE, FALSE, <<>>),
      \* {"error": [], "result": {"XXBTZUSD": {}}}
      Response(TRUE, TRUE, TRUE, <<>>, TRUE, TRUE, FALSE, <<>>),
      \* {"error": [], "result": {"XXBTZUSD": {"c": []}}}
      Response(TRUE, TRUE, TRUE, <<>>, TRUE, TRUE, TRUE, <<>>),
      \* the regular ticker: "c": [price, lot volume]
      Response(TRUE, TRUE, TRUE, <<>>, TRUE, TRUE, TRUE,
               << <<"1","0","0","0","0","1">>, <<"1">> >>) }
    \cup { Response(TRUE, TRUE, TRUE, <<>>, TRUE, TRUE, TRUE, <<s>>) :
             s \in PriceStrings }

\* serde: every field of KrakenResponse, KrakenResult and BtcUsdPair is
\* required
Deserializes(r) ==
    r.json /\ r.has_error /\ r.has_result /\ r.has_pair /\ r.has_c

(***************************************************************************)
(* PriceMonitor                                                            *)
(***************************************************************************)
Ok(price) == [tag |-> "Ok", price |-> price, kind |-> "", text |-> <<>>]
Err(kind, text) == [tag |-> "Err", price |-> F64NaN, kind |-> kind, text |-> text]
Panic == [tag |-> "Panic", price |-> F64NaN, kind |-> "index", text |-> <<>>]
NoResult == [tag |-> "None", price |-> F64NaN, kind |-> "", text |-> <<>>]

fetch_price(r) ==
    IF ~r.sent THEN Err("Transport", <<>>)
    ELSE IF ~Deserializes(r) THEN Err("Decode", <<>>)
    ELSE IF r.error # <<>> THEN Err("Api", r.error)
    ELSE IF r.c = <<>> THEN Panic
    ELSE LET p == ParseF64(r.c[1])
         IN  IF p[1] THEN Ok(p[2]) ELSE Err("Parse", <<>>)

\* the rule answers true when there is no previous price
should_alert_eager(lp, threshold, current_price) ==
    IF lp # <<>>
    THEN LET price_change == F64Div(F64Abs(F64Sub(current_price, lp[1])), lp[1])
         IN  F64Geq(price_change, threshold)
    ELSE TRUE

should_alert(lp, threshold, current_price) ==
    IF lp # <<>>
    THEN LET price_change == F64Div(F64Abs(F64Sub(current_price, lp[1])), lp[1])
         IN  F64Geq(price_change, threshold)
    ELSE FALSE

(***************************************************************************)
(* Relative change, computed on the integers                               *)
(***************************************************************************)
IsPositive(x) == x.kind = "fin" /\ ~x.neg /\ x.num > 0

CeilDiv(a, b) == (a + b - 1) \div b

\* the least absolute change of a previous price p > 0 whose ratio to p
\* reaches the configured threshold
LeastChange(p) == CeilDiv(ThresholdNum * p, ThresholdDen)

\* c is the first observation, or moves by less than the threshold relative
\* to the positive observation before it
SmallStep(prev, c) ==
    \/ prev = <<>>
    \/ /\ IsPositive(prev[1])
       /\ c.kind = "fin"
       /\ Abs(IntVal(c) - IntVal(prev[1])) < LeastChange(IntVal(prev[1]))

(***************************************************************************)
(* main                                                                    *)
(***************************************************************************)
Max(a, b) == IF a >= b THEN a ELSE b

Init ==
    /\ pc = "tick"
    /\ now = 0
    /\ deadline = 0
    /\ last_price = <<>>
    /\ last_alert = 0
    /\ alert_threshold = F64Fin(FALSE, ThresholdNum, ThresholdDen)
    /\ resp = NoResponse
    /\ res = NoResult
    /\ alert = FALSE
    /\ played = "none"
    /\ log = <<>>
    /\ fetched_ok = FALSE
    /\ in_flight = 0
    /\ plays = 0
    /\ stamped = FALSE
    /\ prev_ok = <<>>
    /\ first_ok = <<>>
    /\ small_steps = TRUE

\* a tick that also forgets the stored price
Tick_reset ==
    /\ pc = "tick"
    /\ Max(now, deadline) + SlowestFetch + PlayTime <= MaxTime
    /\ now' = Max(now, deadline)
    /\ deadline' = deadline + Interval
    /\ pc' = "fetch"
    /\ resp' = NoResponse
    /\ res' = NoResult
    /\ alert' = FALSE
    /\ played' = "none"
    /\ log' = <<>>
    /\ last_price' = <<>>
    /\ in_flight' = in_flight + 1
    /\ plays' = 0
    /\ stamped' = FALSE
    /\ UNCHANGED <<last_alert, alert_threshold, fetched_ok, history>>

\* the tick is not held back by the alert being played
Tick_overlap ==
    /\ pc \in {"tick", "alert"}
    /\ Max(now, deadline) + SlowestFetch + PlayTime <= MaxTime
    /\ now' = Max(now, deadline)
    /\ deadline' = deadline + Interval
    /\ pc' = "fetch"
    /\ resp' = NoResponse
    /\ res' = NoResult
    /\ alert' = FALSE
    /\ played' = "none"
    /\ log' = <<>>
    /\ in_flight' = in_flight + 1
    /\ plays' = 0
    /\ stamped' = FALSE
    /\ UNCHANGED <<last_price, last_alert, alert_threshold, fetched_ok,
                   history>>

\* interval_timer.tick().await: completes at the deadline, or at once when
\* the deadline has passed; the next deadline is one period after this one
\* (MissedTickBehavior::Burst, the default of tokio::time::interval)
Tick ==
    /\ pc = "tick"
    /\ Max(now, deadline) + SlowestFetch + PlayTime <= MaxTime
    /\ now' = Max(now, deadline)
    /\ deadline' = deadline + Interval
    /\ pc' = "fetch"
    /\ resp' = NoResponse
    /\ res' = NoResult
    /\ alert' = FALSE
    /\ played' = "none"
    /\ log' = <<>>
    /\ in_flight' = in_flight + 1
    /\ plays' = 0
    /\ stamped' = FALSE
    /\ UNCHANGED <<last_price, last_alert, alert_threshold, fetched_ok,
                   history>>

\* the Err arm also drops the stored price
FetchPrice_clear ==
    /\ pc = "fetch"
    /\ \E r \in Responses, d \in FetchDurations :
         LET out == fetch_price(r) IN
         /\ resp' = r
         /\ res' = out
         /\ now' = now + d
         /\ pc' = CASE out.tag = "Ok" -> "decide"
                    [] out.tag = "Err" -> "tick"
                    [] OTHER -> "panicked"
         /\ log' = CASE out.tag = "Ok" -> Append(log, "Current BTC price")
                     [] out.tag = "Err" -> Append(log, "Failed to fetch price")
                     [] OTHER -> log
         /\ fetched_ok' = (fetched_ok \/ out.tag = "Ok")
         /\ last_price' = IF out.tag = "Err" THEN <<>> ELSE last_price
         /\ prev_ok' = IF out.tag = "Ok" THEN <<out.price>> ELSE prev_ok
         /\ first_ok' = IF out.tag = "Ok" /\ first_ok = <<>>
                        THEN <<out.price>> ELSE first_ok
         /\ small_steps' = IF out.tag = "Ok"
                           THEN small_steps /\ SmallStep(prev_ok, out.price)
                           ELSE small_steps
    /\ in_flight' = in_flight - 1
    /\ UNCHANGED <<deadline, last_alert, alert_threshold, alert, played,
                   plays, stamped>>

\* monitor.fetch_price().await and the match on its result
FetchPrice ==
    /\ pc = "fetch"
    /\ \E r \in Responses, d \in FetchDurations :
         LET out == fetch_price(r) IN
         /\ resp' = r
         /\ res' = out
         /\ now' = now + d
         /\ pc' = CASE out.tag = "Ok" -> "decide"
                    [] out.tag = "Err" -> "tick"
                    [] OTHER -> "panicked"
         /\ log' = CASE out.tag = "Ok" -> Append(log, "Current BTC price")
                     [] out.tag = "Err" -> Append(log, "Failed to fetch price")
                     [] OTHER -> log
         /\ fetched_ok' = (fetched_ok \/ out.tag = "Ok")
         /\ prev_ok' = IF out.tag = "Ok" THEN <<out.price>> ELSE prev_ok
         /\ first_ok' = IF out.tag = "Ok" /\ first_ok = <<>>
                        THEN <<out.price>> ELSE first_ok
         /\ small_steps' = IF out.tag = "Ok"
                           THEN small_steps /\ SmallStep(prev_ok, out.price)
                           ELSE small_steps
    /\ in_flight' = in_flight - 1
    /\ UNCHANGED <<deadline, last_price, last_alert, alert_threshold,
                   alert, played, plays, stamped>>

\* the rule is evaluated after the fetched price has been stored
ShouldAlert_after ==
    /\ pc = "decide"
    /\ alert' = should_alert(<<res.price>>, alert_threshold, res.price)
    /\ pc' = IF alert' THEN "alert" ELSE "commit"
    /\ log' = IF alert' THEN Append(log, "Price change threshold reached")
              ELSE log
    /\ UNCHANGED <<now, deadline, last_price, last_alert, alert_threshold,
                   resp, res, played, fetched_ok, in_flight, plays, stamped,
                   history>>

\* if monitor.should_alert(current_price)
ShouldAlert ==
    /\ pc = "decide"
    /\ alert' = should_alert(last_price, alert_threshold, res.price)
    /\ pc' = IF alert' THEN "alert" ELSE "commit"
    /\ log' = IF alert' THEN Append(log, "Price change threshold reached")
              ELSE log
    /\ UNCHANGED <<now, deadline, last_price, last_alert, alert_threshold,
                   resp, res, played, fetched_ok, in_flight, plays, stamped,
                   history>>

\* last_alert is assigned only when the alert could be played
PlayAlert_stamp_ok ==
    /\ pc = "alert"
    /\ \E ok \in BOOLEAN :
         /\ played' = IF ok THEN "ok" ELSE "failed"
         /\ now' = IF ok THEN now + PlayTime ELSE now
         /\ log' = IF ok THEN log ELSE Append(log, "Failed to play alert sound")
         /\ last_alert' = IF ok THEN now' ELSE last_alert
         /\ stamped' = ok
    /\ plays' = plays + 1
    /\ pc' = "commit"
    /\ UNCHANGED <<deadline, last_price, alert_threshold, resp, res, alert,
                   fetched_ok, in_flight, history>>

\* play_alert()? : a failed alert leaves main
PlayAlert_propagate ==
    /\ pc = "alert"
    /\ \E ok \in BOOLEAN :
         /\ played' = IF ok THEN "ok" ELSE "failed"
         /\ now' = IF ok THEN now + PlayTime ELSE now
         /\ log' = log
         /\ pc' = IF ok THEN "commit" ELSE "exited"
         /\ last_alert' = IF ok THEN now' ELSE last_alert
         /\ stamped' = ok
    /\ plays' = plays + 1
    /\ UNCHANGED <<deadline, last_price, alert_threshold, resp, res, alert,
                   fetched_ok, in_flight, history>>

\* monitor.play_alert() and monitor.last_alert = Instant::now(); every
\* failure of play_alert comes before its sleep
PlayAlert ==
    /\ pc = "alert"
    /\ \E ok \in BOOLEAN :
         /\ played' = IF ok THEN "ok" ELSE "failed"
         /\ now' = IF ok THEN now + PlayTime ELSE now
         /\ log' = IF ok THEN log ELSE Append(log, "Failed to play alert sound")
    /\ last_alert' = now'
    /\ stamped' = TRUE
    /\ plays' = plays + 1
    /\ pc' = "commit"
    /\ UNCHANGED <<deadline, last_price, alert_threshold, resp, res, alert,
                   fetched_ok, in_flight, history>>

\* the stored price is the first observation or the price of the last alert
Commit_on_alert ==
    /\ pc = "commit"
    /\ last_price' = IF alert \/ last_price = <<>> THEN <<res.price>>
                     ELSE last_price
    /\ pc' = "tick"
    /\ UNCHANGED <<now, deadline, last_alert, alert_threshold, resp, res,
                   alert, played, log, fetched_ok, in_flight, plays, stamped,
                   history>>

\* the price is stored only on the branch without an alert
Commit_quiet ==
    /\ pc = "commit"
    /\ last_price' = IF alert THEN last_price ELSE <<res.price>>
    /\ pc' = "tick"
    /\ UNCHANGED <<now, deadline, last_alert, alert_threshold, resp, res,
                   alert, played, log, fetched_ok, in_flight, plays, stamped,
                   history>>

\* monitor.last_price = Some(current_price)
Commit ==
    /\ pc = "commit"
    /\ last_price' = <<res.price>>
    /\ pc' = "tick"
    /\ UNCHANGED <<now, deadline, last_alert, alert_threshold, resp, res,
                   alert, played, log, fetched_ok, in_flight, plays, stamped,
                   history>>

Next == Tick \/ FetchPrice \/ ShouldAlert \/ PlayAlert \/ Commit

Spec == Init /\ [][Next]_vars

(***************************************************************************)
(* Properties                                                              *)
(***************************************************************************)
Price(n) == F64Fin(FALSE, n, 1)

\* should_alert has been evaluated and last_price is still the previous price
Decided == pc \in {"alert", "commit"}

\* C1: for a previous price p > 0 and a current price c, should_alert is
\* true exactly when |c - p| / p >= threshold (a change of exactly the
\* threshold triggers, the next smaller one does not); it is false when
\* there is no previous price.
C1_ShouldAlertRule ==
    Decided =>
      /\ last_price = <<>> => ~alert
      /\ (last_price # <<>> /\ IsPositive(last_price[1])) =>
           (alert <=> Abs(IntVal(res.price) - IntVal(last_price[1]))
                        >= LeastChange(IntVal(last_price[1])))
      /\ (last_price = <<Price(100000)>> /\ res.price = Price(100001)) => alert
      /\ (last_price = <<Price(100001)>> /\ res.price = Price(100002)) => ~alert

C1_Witness ==
    /\ pc = "alert"
    /\ last_price = <<Price(100000)>>
    /\ res.price = Price(99999)
    /\ alert

\* C2: at the end of a cycle whose fetch succeeded, last_price is the price
\* fetched in that cycle, whatever should_alert returned and whatever
\* happened to the alert.
C2_CommitUnconditional ==
    (pc = "tick" /\ res.tag = "Ok") => last_price = <<res.price>>

C2_Witness ==
    /\ pc = "tick"
    /\ res.tag = "Ok"
    /\ alert
    /\ played = "ok"
    /\ last_price = <<res.price>>

\* C3: a cycle whose fetch returns an error ends at once with last_price,
\* last_alert and alert_threshold as they were, and without playing the
\* alert.
C3_FetchFailureFrame ==
    /\ [](res.tag = "Err" => (pc = "tick" /\ played = "none" /\ ~alert))
    /\ [][(pc = "fetch" /\ res'.tag = "Err") =>
            /\ last_price' = last_price
            /\ last_alert' = last_alert
            /\ alert_threshold' = alert_threshold
            /\ pc' = "tick"]_vars

C3_Witness ==
    /\ pc = "tick"
    /\ res.tag = "Err"
    /\ res.kind = "Parse"
    /\ last_price = <<Price(100000)>>

\* C4: every error of a cycle is logged and the loop returns to waiting for
\* the next tick; no response makes the process crash.
C4_NoCrash ==
    /\ pc # "panicked"
    /\ res.tag = "Err" =>
         (pc = "tick" /\ log = <<"Failed to fetch price">>)

\* the price string of a decoded, error-free ticker is missing or is not a
\* decimal number
PriceMissingOrInvalid(r) ==
    /\ r.sent /\ r.json /\ r.has_error /\ r.error = <<>>
    /\ r.has_result /\ r.has_pair
    /\ \/ ~r.has_c
       \/ r.c = <<>>
       \/ ~ParseF64(r.c[1])[1]

\* C5: when the price string is missing (c empty or absent) or is not a
\* decimal number, fetch_price returns an error value for the unparsable
\* response.
C5_ParseError ==
    PriceMissingOrInvalid(resp) =>
      (res.tag = "Err" /\ res.kind \in {"Parse", "Decode"})

\* C6: a response whose error list is non-empty makes fetch_price fail with
\* the API error that carries the provider's text, and the cycle leaves the
\* stored price alone.
C6_ApiError ==
    (resp.sent /\ resp.json /\ resp.has_error /\ resp.error # <<>>) =>
      (res.tag = "Err" /\ res.kind = "Api" /\ res.text = resp.error)

\* C7: fetch_price never succeeds with a price that is not strictly
\* positive, so a stored last_price is strictly positive.
C7_PositivePrice ==
    /\ res.tag = "Ok" => IsPositive(res.price)
    /\ last_price # <<>> => IsPositive(last_price[1])

\* C8: last_price is absent only until the first successful fetch has been
\* committed; once set it is never cleared, and every change of it stores
\* the price of the successful fetch of the running cycle.
C8_NeverCleared ==
    /\ []((last_price = <<>> /\ fetched_ok) =>
            pc \in {"decide", "alert", "commit"})
    /\ [][/\ last_price # <<>> => last_price' # <<>>
          /\ last_price' # last_price =>
               (res.tag = "Ok" /\ last_price' = <<res.price>>)]_vars

C8_Witness ==
    /\ pc = "tick"
    /\ res.kind = "Transport"
    /\ fetched_ok
    /\ last_price = <<Price(100001)>>

\* C9: a failed alert changes nothing about the commit: the cycle still
\* stores the fetched price and returns to waiting for the next tick.
C9_AlertFailure ==
    /\ [](played = "failed" =>
            /\ pc \in {"commit", "tick"}
            /\ pc = "tick" => last_price = <<res.price>>)
    /\ [][pc = "alert" => (last_price' = last_price /\ pc' = "commit")]_vars

C9_Witness ==
    /\ pc = "tick"
    /\ played = "failed"
    /\ log = <<"Current BTC price", "Price change threshold reached",
               "Failed to play alert sound">>
    /\ last_price = <<res.price>>

\* C10: ticks do not pile up: when a tick has fired, the next one is not
\* already due, so the ticks missed during a slow cycle cannot fire one
\* right after the other.
C10_NoCatchUp ==
    pc = "fetch" => deadline > now

\* C11: until the first successful fetch has been committed no alert is
\* decided or played (every cycle up to and including the first successful
\* one), and that commit stores the price fetched in that cycle.
C11_FirstObservation ==
    /\ [](last_price = <<>> =>
            /\ ~alert /\ plays = 0 /\ played = "none" /\ ~stamped
            /\ last_alert = 0
            /\ pc # "alert")
    /\ [][(last_price = <<>> /\ last_price' # <<>>) =>
            /\ res.tag = "Ok"
            /\ last_price' = <<res.price>>
            /\ plays' = 0
            /\ pc' = "tick"]_vars

C11_Witness ==
    /\ pc = "tick"
    /\ deadline = Interval
    /\ res.tag = "Ok"
    /\ first_ok = <<Price(100000)>>
    /\ last_price = <<Price(100000)>>
    /\ plays = 0

\* C12: for a previous price p > 0 the decision taken for the current price
\* c is the decision for the price mirrored at p, 2p - c: a rise and a fall
\* of the same size are treated alike.
C12_Symmetry ==
    (Decided /\ last_price # <<>> /\ IsPositive(last_price[1])) =>
      LET p == IntVal(last_price[1])
          m == 2 * p - IntVal(res.price)
      IN  alert = should_alert(last_price, alert_threshold,
                               F64Fin(m < 0, Abs(m), 1))

C12_Witness ==
    /\ pc = "alert"
    /\ last_price = <<Price(100000)>>
    /\ res.price = Price(100001)
    /\ alert
    /\ should_alert(last_price, alert_threshold, Price(99999))

\* the running cycle has ended: the loop waits for the next tick after a
\* fetch, or the process is gone
CycleOver == pc \in {"tick", "panicked"} /\ res.tag # "None"

\* C13: play_alert is called at most once per cycle, and exactly in the
\* cycles whose fetch succeeded and whose should_alert, evaluated against the
\* last_price of before the commit, returned true; the call comes before
\* last_price is overwritten.
C13_AlertExactlyWhenDecided ==
    /\ [](plays <= 1)
    /\ [](CycleOver => (plays = 1 <=> (res.tag = "Ok" /\ alert)))
    /\ [](Decided =>
            alert = should_alert(last_price, alert_threshold, res.price))
    /\ [][plays' # plays =>
            \/ plays' = 0 /\ pc' = "fetch"
            \/ /\ plays' = plays + 1
               /\ pc = "alert" /\ alert /\ res.tag = "Ok"
               /\ last_price' = last_price]_vars
    /\ [][last_price' # last_price =>
            (pc = "commit" /\ (alert => plays = 1))]_vars

C13_Witness ==
    /\ pc = "commit"
    /\ plays = 1
    /\ alert
    /\ res.price = Price(100002)
    /\ last_price = <<Price(100000)>>

MonitorState == <<last_price, last_alert, alert_threshold>>

\* C14: at most one fetch is outstanding, and only between the tick and the
\* match on its result; a fetch is started only from the wait for the tick,
\* never while the alert is played; the monitor's fields are written only
\* after the fetch of the cycle has returned a price.
C14_Sequential ==
    /\ [](in_flight <= 1)
    /\ [](in_flight = 1 <=> pc = "fetch")
    /\ [][in_flight' > in_flight => pc = "tick"]_vars
    /\ [][MonitorState' # MonitorState =>
            /\ in_flight = 0 /\ in_flight' = 0
            /\ res.tag = "Ok"
            /\ pc \in {"alert", "commit"}]_vars

\* the alert is being played, the next tick is already due, and no fetch
\* has been started
C14_Witness ==
    /\ pc = "alert"
    /\ now >= deadline
    /\ in_flight = 0

\* C15: the price compared against is the latest successful observation;
\* as long as every successful fetch moved by less than the threshold
\* relative to the one before it, no alert has been decided or played,
\* however far the price is from the first observation.
C15_BaselineIsPrevious ==
    /\ (pc \in {"tick", "fetch"}) => last_price = prev_ok
    /\ small_steps =>
         /\ ~alert /\ plays = 0 /\ played = "none" /\ pc # "alert"
         /\ last_alert = 0

\* three observations 100001, 100002, 100003: each step is below the
\* threshold, the drift from the first is not
C15_Witness ==
    /\ pc = "tick"
    /\ small_steps
    /\ first_ok = <<Price(100001)>>
    /\ last_price = <<Price(100003)>>
    /\ Abs(IntVal(last_price[1]) - IntVal(first_ok[1]))
         >= LeastChange(IntVal(first_ok[1]))
    /\ last_alert = 0

\* C16: last_alert is assigned in exactly the cycles whose should_alert
\* returned true, also when play_alert failed, and then holds the time of
\* the assignment; a failed fetch and a quiet successful fetch leave it
\* alone; alert_threshold keeps the value it was constructed with.
C16_LastAlertFrame ==
    /\ [](alert_threshold = F64Fin(FALSE, ThresholdNum, ThresholdDen))
    /\ [](CycleOver => (stamped <=> (res.tag = "Ok" /\ alert)))
    /\ [](played # "none" => (stamped /\ last_alert = now))
    /\ [][last_alert' # last_alert => (pc = "alert" /\ stamped')]_vars
    /\ [][(stamped' /\ ~stamped) =>
            (pc = "alert" /\ alert /\ last_alert' = now')]_vars

C16_Witness ==
    /\ pc = "tick"
    /\ played = "failed"
    /\ stamped
    /\ last_alert = now
    /\ last_alert > 0
====
